---- MODULE Spec2Model ----
(***************************************************************************)
(* Model of rest_utilities.FeatureService: the field filter                *)
(* (_validate_field), the geometry reader (get_geometry_json inside        *)
(* _get_feature_list), the identifier listing (get_fid_list) and the       *)
(* export (save_to_feature_class).                                         *)
(*                                                                         *)
(* Python values are modelled as follows.  A str that a regular expression *)
(* inspects (a field name) is the sequence of its characters.  A dict is a *)
(* function whose DOMAIN is the set of its keys.  A list is a sequence.    *)
(* A value that may be None is a record [none, val].  A raised exception   *)
(* ends the run: pc = "raised" and error names the exception.              *)
(***************************************************************************)
EXTENDS Integers, Sequences, FiniteSets

VARIABLES
    pc,                 \* position in save_to_feature_class
    error,              \* the exception that ended the run, or "none"
    raised_at,          \* the step that raised it, or "none"
    properties,         \* self.properties: the service metadata (_describe)
    server_ids,         \* what the server answers for objectIds
    columns,            \* the columns AddField_management added to fc
    field_idx,          \* position of the "for field in fields" loop
    insert_field_list,  \* insert_field_list
    batch_size,         \* batch_size
    fid_list,           \* fid_list ([none, val]: None or a list)
    fid_batch_list,     \* fid_batch_list
    cursor,             \* the insert cursor: "none", "open" or "closed"
    opens,              \* how often the cursor was opened
    closes,             \* how often the cursor was closed
    batch_idx,          \* position of the "for fid_batch in fid_batch_list" loop
    feature_list,       \* feature_list of the current batch
    feature_idx,        \* position of the "for feature in feature_list" loop
    rows,               \* the rows insertRow wrote to fc
    queries,            \* the batch queries sent to the server, with the kind of answer
    vf,                 \* one call of _validate_field: [field, done, result]
    gj                  \* one call of get_geometry_json: [dict, done, outcome, value]

vars == <<pc, error, raised_at, properties, server_ids, columns, field_idx,
          insert_field_list, batch_size, fid_list, fid_batch_list, cursor,
          opens, closes, batch_idx, feature_list, feature_idx, rows, queries,
          vf, gj>>

exportVars == <<pc, error, raised_at, properties, server_ids, columns, field_idx,
                insert_field_list, batch_size, fid_list, fid_batch_list, cursor,
                opens, closes, batch_idx, feature_list, feature_idx, rows, queries>>

----------------------------------------------------------------------------
(* Bounds of the model.                                                    *)

MaxFields == 2      \* longest fields list of the service metadata
MaxIds == 4         \* most identifiers the server lists in the export runs
MaxRecordSmall == 3 \* largest small maxRecordCount (the values around 100 are added)
MaxCoord == 2       \* coordinate values are drawn from 1..MaxCoord
MaxSlack == 2       \* the batching runs list up to 2*100 + MaxSlack identifiers

(* Program constants.                                                      *)

BatchCap == 100     \* the cap on batch_size

----------------------------------------------------------------------------
(* Strings that regular expressions inspect, as character sequences.       *)

S_OBJECTID == <<"O","B","J","E","C","T","I","D">>
S_OBJECTID_1 == <<"O","B","J","E","C","T","I","D","_","1">>
S_XOBJECTID == <<"X","O","B","J","E","C","T","I","D">>
S_objectid == <<"o","b","j","e","c","t","i","d">>
S_OBJECTI == <<"O","B","J","E","C","T","I">>
S_ShapeDot == <<"S","h","a","p","e",".">>
S_ShapeDotLen == <<"S","h","a","p","e",".","l","e","n">>
S_Shape == <<"S","h","a","p","e">>
S_Shape_Len == <<"S","h","a","p","e","_","L","e","n">>
S_NAME == <<"N","A","M","E">>
S_POP == <<"P","O","P">>
S_Empty == <<>>
S_SHAPE_AT == <<"S","H","A","P","E","@">>

FieldNames == {S_OBJECTID, S_OBJECTID_1, S_XOBJECTID, S_objectid, S_OBJECTI,
               S_ShapeDot, S_ShapeDotLen, S_Shape, S_Shape_Len, S_NAME, S_POP,
               S_Empty}

(* The field types of the ArcGIS REST API.                                 *)
FieldTypes == {"esriFieldTypeString", "esriFieldTypeFloat", "esriFieldTypeDouble",
               "esriFieldTypeSmallInteger", "esriFieldTypeInteger",
               "esriFieldTypeDate", "esriFieldTypeGlobalID", "esriFieldTypeOID",
               "esriFieldTypeGeometry", "esriFieldTypeSingle", "esriFieldTypeGUID",
               "esriFieldTypeBlob", "esriFieldTypeRaster", "esriFieldTypeXML"}

----------------------------------------------------------------------------
(* re.match(r'^<prefix>.*', s): the pattern is anchored at the start, the  *)
(* prefix is literal and ".*" also matches the empty rest, so the match    *)
(* succeeds exactly when s begins with the prefix.                         *)
re_match_prefix(prefix, s) ==
    /\ Len(s) >= Len(prefix)
    /\ SubSeq(s, 1, Len(prefix)) = prefix

(* A variant of the filter that leaves the Date branch out.                *)
validate_field_keeps_dates(field_instance) ==
    IF field_instance.type = "esriFieldTypeOID" THEN FALSE
    ELSE IF field_instance.type = "esriFieldTypeGeometry" THEN FALSE
    ELSE IF re_match_prefix(S_OBJECTID, field_instance.name) THEN FALSE
    ELSE IF re_match_prefix(S_ShapeDot, field_instance.name) THEN FALSE
    ELSE IF field_instance.type = "esriFieldTypeGlobalID" THEN FALSE
    ELSE TRUE

(* FeatureService._validate_field                                          *)
_validate_field(field_instance) ==
    IF field_instance.type = "esriFieldTypeOID" THEN FALSE
    ELSE IF field_instance.type = "esriFieldTypeGeometry" THEN FALSE
    ELSE IF re_match_prefix(S_OBJECTID, field_instance.name) THEN FALSE
    ELSE IF re_match_prefix(S_ShapeDot, field_instance.name) THEN FALSE
    ELSE IF field_instance.type = "esriFieldTypeDate" THEN FALSE
    ELSE IF field_instance.type = "esriFieldTypeGlobalID" THEN FALSE
    ELSE TRUE

----------------------------------------------------------------------------
(* get_geometry_json.  The third test is the Python expression             *)
(* 'x' and 'y' in d: the non-empty string 'x' is true, so the test is      *)
(* 'y' in d.  d['x'] of a dict without 'x' raises KeyError.  A function    *)
(* that falls off its end returns None.                                    *)

GeoReturn(v) == [outcome |-> "return", value |-> v]
GeoNone == [outcome |-> "None", value |-> <<>>]
GeoKeyError == [outcome |-> "KeyError", value |-> <<>>]

PyTruthyStr(s) == s /= ""

get_geometry_json(d) ==
    IF "paths" \in DOMAIN d THEN GeoReturn(d["paths"])
    ELSE IF "rings" \in DOMAIN d THEN GeoReturn(d["rings"])
    ELSE IF PyTruthyStr("x") /\ "y" \in DOMAIN d
         THEN IF "x" \in DOMAIN d
              THEN GeoReturn(<<d["x"], d["y"]>>)
              ELSE GeoKeyError
    ELSE GeoNone

----------------------------------------------------------------------------
(* Python built-ins used by save_to_feature_class.                         *)

(* range(start, stop, step) for step /= 0, as the sequence of its values.  *)
PyRange(start, stop, step) ==
    LET n == IF step > 0
             THEN (IF stop > start THEN (stop - start + step - 1) \div step ELSE 0)
             ELSE (IF start > stop THEN (start - stop - step - 1) \div (0 - step) ELSE 0)
    IN [k \in 1..n |-> start + (k - 1) * step]

(* A slice index of a sequence of length n: a negative index counts from   *)
(* the end, and the result is clamped to 0..n.                             *)
PyClamp(i, n) ==
    LET j == IF i < 0 THEN i + n ELSE i
    IN IF j < 0 THEN 0 ELSE IF j > n THEN n ELSE j

(* s[i:j]                                                                  *)
PySlice(s, i, j) ==
    LET lo == PyClamp(i, Len(s))
        hi == PyClamp(j, Len(s))
    IN IF lo < hi THEN SubSeq(s, lo + 1, hi) ELSE <<>>

----------------------------------------------------------------------------
(* The lookup table field_type of save_to_feature_class.                   *)
field_type ==
    [t \in {"esriFieldTypeString", "esriFieldTypeFloat", "esriFieldTypeDouble",
            "esriFieldTypeSmallInteger", "esriFieldTypeInteger",
            "esriFieldTypeDate", "esriFieldTypeGlobalID"} |->
        CASE t = "esriFieldTypeString" -> "TEXT"
          [] t = "esriFieldTypeFloat" -> "FLOAT"
          [] t = "esriFieldTypeDouble" -> "DOUBLE"
          [] t = "esriFieldTypeSmallInteger" -> "SHORT"
          [] t = "esriFieldTypeInteger" -> "LONG"
          [] t = "esriFieldTypeDate" -> "DATE"
          [] t = "esriFieldTypeGlobalID" -> "GUID"]

(* The lookup table geometry_type of _get_feature_list.                    *)
geometry_type ==
    [t \in {"esriGeometryPoint", "esriGeometryMultipoint", "esriGeometryPolyline",
            "esriGeometryPolygon"} |->
        CASE t = "esriGeometryPoint" -> "Point"
          [] t = "esriGeometryMultipoint" -> "MultiPoint"
          [] t = "esriGeometryPolyline" -> "MultiLineString"
          [] t = "esriGeometryPolygon" -> "Polygon"]

(* A batch size with no cap.                                               *)
BatchSizeUncapped(max_record_count) == max_record_count

(* batch_size: 100 when maxRecordCount exceeds 100, else maxRecordCount.   *)
BatchSizeOf(max_record_count) ==
    IF max_record_count > BatchCap THEN BatchCap ELSE max_record_count

(* fid_batch_list for a step other than 0:                                 *)
(* [fid_list[i: i + b] for i in range(0, len(fid_list) - 1, b)]            *)
FidBatches(ids, b) ==
    LET starts == PyRange(0, Len(ids) - 1, b)
    IN [k \in 1..Len(starts) |-> PySlice(ids, starts[k], starts[k] + b)]

----------------------------------------------------------------------------
(* The service.  Its metadata is properties; the identifiers it lists are  *)
(* server_ids; it stores one feature per identifier.                       *)

ObjectId(k) == 10 * k

(* The objectIds array of n identifiers, in the server's order.            *)
IdArray(n) == [k \in 1..n |-> ObjectId(k)]

F_NAME == [name |-> S_NAME, alias |-> S_NAME, type |-> "esriFieldTypeString",
           length |-> <<50>>]
F_POP == [name |-> S_POP, alias |-> S_POP, type |-> "esriFieldTypeInteger",
          length |-> <<>>]
F_OBJECTID == [name |-> S_OBJECTID, alias |-> S_OBJECTID, type |-> "esriFieldTypeOID",
               length |-> <<>>]
F_ShapeDotLen == [name |-> S_ShapeDotLen, alias |-> S_ShapeDotLen,
                  type |-> "esriFieldTypeDouble", length |-> <<>>]
F_Shape_Len == [name |-> S_Shape_Len, alias |-> S_Shape_Len,
                type |-> "esriFieldTypeSingle", length |-> <<>>]

FieldUniverse == {F_NAME, F_POP, F_OBJECTID, F_ShapeDotLen, F_Shape_Len}

(* The fields lists of the metadata: up to MaxFields fields, names unique. *)
FieldLists ==
    UNION {{fl \in [1..n -> FieldUniverse] :
               \A i, j \in 1..n : i /= j => fl[i] /= fl[j]} : n \in 0..MaxFields}

GeometryTypes == {"esriGeometryPoint", "esriGeometryPolyline", "esriGeometryPolygon"}

RecordCounts == (0..MaxRecordSmall) \cup {BatchCap, BatchCap + 1}

(* What the identifier query answers: objectIds absent, null or an array.  *)
IdAnswers ==
    {[kind |-> "absent", ids |-> <<>>], [kind |-> "null", ids |-> <<>>]}
    \cup {[kind |-> "array", ids |-> IdArray(n)] : n \in 0..MaxIds}

(* The value the server stores for an attribute of a feature.              *)
AttrValue(fid, name) == [of |-> fid, column |-> name]

(* The geometry sub-object the server stores for a feature.                *)
StoredGeometry(fid, gtype) ==
    IF gtype = "esriGeometryPoint" THEN [k \in {"x", "y"} |-> fid]
    ELSE IF gtype = "esriGeometryPolyline" THEN [k \in {"paths"} |-> <<fid>>]
    ELSE [k \in {"rings"} |-> <<fid>>]

(* The feature the server stores for an identifier, with all its fields.  *)
StoredFeature(fid) ==
    [attributes |-> [n \in {properties.fields[i].name : i \in DOMAIN properties.fields}
                        |-> AttrValue(fid, n)],
     geometry |-> StoredGeometry(fid, properties.geometryType)]

(* The answers the server can give to a batch query:                       *)
(*   ok      one feature per requested identifier, in order;               *)
(*   short   the last requested identifier is missing from the answer;     *)
(*   noattr  the feature at position pos has an empty attributes object;   *)
(*   ygeom   the feature at position pos has a geometry with only y;       *)
(*   raise   the request fails (requests.get or .json() raises).           *)
AnswerKinds == {"ok", "short", "noattr", "ygeom", "raise"}

Answer(kind, pos, fid_batch) ==
    LET all == [k \in 1..Len(fid_batch) |-> StoredFeature(fid_batch[k])]
    IN CASE kind = "short" -> SubSeq(all, 1, Len(all) - 1)
         [] kind = "noattr" ->
                [all EXCEPT ![pos] = [@ EXCEPT !.attributes = <<>>]]
         [] kind = "ygeom" ->
                [all EXCEPT ![pos] = [@ EXCEPT !.geometry = [k \in {"y"} |-> 0]]]
         [] OTHER -> all

(* arcpy.AsShape(esrijson)                                                 *)
AsShape(esrijson) == esrijson

(* _get_feature_list, from the features of the answer on: the geometry of  *)
(* every feature is read by get_geometry_json; a KeyError there ends the   *)
(* call.                                                                   *)
_get_feature_list(features, gtype) ==
    LET geo == [k \in 1..Len(features) |-> get_geometry_json(features[k].geometry)]
    IN IF \E k \in 1..Len(features) : geo[k].outcome = "KeyError"
       THEN [outcome |-> "KeyError", value |-> <<>>]
       ELSE [outcome |-> "return",
             value |-> [k \in 1..Len(features) |->
                          [attributes |-> features[k].attributes,
                           geometry |-> AsShape([type |-> geometry_type[gtype],
                                                 coordinates |-> geo[k]])]]]

(* A row with the geometry first.                                          *)
AttributeListGeometryFirst(feature, names) ==
    LET attrs == SelectSeq(names, LAMBDA n : n /= S_SHAPE_AT)
    IN IF \E i \in 1..Len(attrs) : attrs[i] \notin DOMAIN feature.attributes
       THEN [outcome |-> "KeyError", value |-> <<>>]
       ELSE [outcome |-> "return",
             value |-> <<feature.geometry>>
                       \o [i \in 1..Len(attrs) |-> feature.attributes[attrs[i]]]]

(* attribute_list of one feature: the attribute of every name of           *)
(* insert_field_list other than 'SHAPE@', in order, then the geometry.     *)
AttributeList(feature, names) ==
    LET attrs == SelectSeq(names, LAMBDA n : n /= S_SHAPE_AT)
    IN IF \E i \in 1..Len(attrs) : attrs[i] \notin DOMAIN feature.attributes
       THEN [outcome |-> "KeyError", value |-> <<>>]
       ELSE [outcome |-> "return",
             value |-> [i \in 1..Len(attrs) |-> feature.attributes[attrs[i]]]
                       \o <<feature.geometry>>]

----------------------------------------------------------------------------
(* The export: save_to_feature_class, after FeatureService(url) was        *)
(* constructed (properties holds the metadata).                            *)

NoCall == [field |-> F_NAME, done |-> FALSE, result |-> FALSE]
NoGeo == [dict |-> <<>>, done |-> FALSE, outcome |-> "none", value |-> <<>>]

None == [none |-> TRUE, val |-> <<>>]
Some(v) == [none |-> FALSE, val |-> v]

InitExport ==
    /\ pc = "create"
    /\ error = "none"
    /\ raised_at = "none"
    /\ columns = <<>>
    /\ field_idx = 1
    /\ insert_field_list = <<>>
    /\ batch_size = 0
    /\ fid_list = None
    /\ fid_batch_list = <<>>
    /\ cursor = "none"
    /\ opens = 0
    /\ closes = 0
    /\ batch_idx = 1
    /\ feature_list = <<>>
    /\ feature_idx = 1
    /\ rows = <<>>
    /\ queries = <<>>

Init ==
    /\ InitExport
    /\ vf = NoCall
    /\ gj = NoGeo
    /\ properties \in [maxRecordCount : RecordCounts, fields : FieldLists,
                       geometryType : GeometryTypes]
    /\ server_ids \in IdAnswers

(* An exception leaving save_to_feature_class outside the with block.      *)
Raise(exc, at) ==
    /\ pc' = "raised"
    /\ error' = exc
    /\ raised_at' = at

(* A with block that does not release its cursor when an exception leaves  *)
(* it.                                                                     *)
WithExitLeaks(c) == c

(* The with statement: the cursor is released when an exception leaves the *)
(* block.                                                                  *)
WithExit(c) == "closed"

(* An exception leaving the with block.                                    *)
RaiseInWith(exc, at) ==
    /\ Raise(exc, at)
    /\ cursor' = WithExit(cursor)
    /\ closes' = IF cursor = "open" /\ cursor' = "closed" THEN closes + 1 ELSE closes

(* arcpy.CreateFeatureclass_management; the tool may fail.                 *)
CreateFeatureclass ==
    /\ pc = "create"
    /\ \E ok \in BOOLEAN :
        IF ok /\ properties.geometryType \in DOMAIN geometry_type
        THEN /\ pc' = "add_fields"
             /\ UNCHANGED <<error, raised_at>>
        ELSE Raise(IF ok THEN "KeyError" ELSE "ExecuteError", "create")
    /\ UNCHANGED <<properties, server_ids, columns, field_idx, insert_field_list,
                   batch_size, fid_list, fid_batch_list, cursor, opens, closes,
                   batch_idx, feature_list, feature_idx, rows, queries, vf, gj>>

(* One pass of the loop "for field in self.properties['fields']".          *)
AddField ==
    /\ pc = "add_fields"
    /\ field_idx <= Len(properties.fields)
    /\ LET field == properties.fields[field_idx]
       IN IF ~_validate_field(field)
          THEN /\ field_idx' = field_idx + 1
               /\ UNCHANGED <<pc, error, raised_at, columns, insert_field_list>>
          ELSE IF field.type \notin DOMAIN field_type
          THEN /\ Raise("KeyError", "add_fields")
               /\ UNCHANGED <<field_idx, columns, insert_field_list>>
          ELSE /\ insert_field_list' = Append(insert_field_list, field.name)
               /\ columns' = Append(columns,
                      [field_name |-> field.name,
                       field_type |-> field_type[field.type],
                       field_alias |-> field.alias,
                       field_length |-> IF field_type[field.type] = "TEXT"
                                        THEN field.length ELSE <<>>])
               /\ field_idx' = field_idx + 1
               /\ UNCHANGED <<pc, error, raised_at>>
    /\ UNCHANGED <<properties, server_ids, batch_size, fid_list, fid_batch_list,
                   cursor, opens, closes, batch_idx, feature_list, feature_idx,
                   rows, queries, vf, gj>>

(* The batch size, once the fields loop has ended.                         *)
ComputeBatchSize ==
    /\ pc = "add_fields"
    /\ field_idx > Len(properties.fields)
    /\ batch_size' = BatchSizeOf(properties.maxRecordCount)
    /\ pc' = "get_fid_list"
    /\ UNCHANGED <<error, raised_at, properties, server_ids, columns, field_idx,
                   insert_field_list, fid_list, fid_batch_list, cursor, opens,
                   closes, batch_idx, feature_list, feature_idx, rows, queries,
                   vf, gj>>

(* fid_list = self.get_fid_list(): json_dict['objectIds'] of the answer;   *)
(* the request may fail.                                                   *)
GetFidList ==
    /\ pc = "get_fid_list"
    /\ \E ok \in BOOLEAN :
        IF ~ok
        THEN Raise("ConnectionError", "get_fid_list") /\ UNCHANGED fid_list
        ELSE IF server_ids.kind = "absent"
        THEN Raise("KeyError", "get_fid_list") /\ UNCHANGED fid_list
        ELSE /\ fid_list' = IF server_ids.kind = "null" THEN None
                            ELSE Some(server_ids.ids)
             /\ pc' = "make_batches"
             /\ UNCHANGED <<error, raised_at>>
    /\ UNCHANGED <<properties, server_ids, columns, field_idx, insert_field_list,
                   batch_size, fid_batch_list, cursor, opens, closes, batch_idx,
                   feature_list, feature_idx, rows, queries, vf, gj>>

(* fid_batch_list: len(None) raises TypeError, range with step 0 raises    *)
(* ValueError.                                                             *)
MakeBatches ==
    /\ pc = "make_batches"
    /\ IF fid_list.none
       THEN Raise("TypeError", "make_batches") /\ UNCHANGED fid_batch_list
       ELSE IF batch_size = 0
       THEN Raise("ValueError", "make_batches") /\ UNCHANGED fid_batch_list
       ELSE /\ fid_batch_list' = FidBatches(fid_list.val, batch_size)
            /\ pc' = "open_cursor"
            /\ UNCHANGED <<error, raised_at>>
    /\ UNCHANGED <<properties, server_ids, columns, field_idx, insert_field_list,
                   batch_size, fid_list, cursor, opens, closes, batch_idx,
                   feature_list, feature_idx, rows, queries, vf, gj>>

(* insert_field_list.append('SHAPE@') and the entry of the with block.     *)
OpenCursor ==
    /\ pc = "open_cursor"
    /\ insert_field_list' = Append(insert_field_list, S_SHAPE_AT)
    /\ cursor' = "open"
    /\ opens' = opens + 1
    /\ batch_idx' = 1
    /\ pc' = "next_batch"
    /\ UNCHANGED <<error, raised_at, properties, server_ids, columns, field_idx,
                   batch_size, fid_list, fid_batch_list, closes, feature_list,
                   feature_idx, rows, queries, vf, gj>>

(* One pass of "for fid_batch in fid_batch_list" up to the inner loop:     *)
(* feature_list = self._get_feature_list(fid_batch).                       *)
FetchBatch ==
    /\ pc = "next_batch"
    /\ batch_idx <= Len(fid_batch_list)
    /\ LET fid_batch == fid_batch_list[batch_idx]
       IN \E kind \in AnswerKinds, pos \in {1, Len(fid_batch)} :
            /\ kind \in {"short", "noattr", "ygeom"} => fid_batch /= <<>>
            /\ kind \in {"ok", "short", "raise"} => pos = 1
            /\ queries' = Append(queries, [ids |-> fid_batch, kind |-> kind, pos |-> pos])
            /\ LET r == _get_feature_list(Answer(kind, pos, fid_batch),
                                          properties.geometryType)
               IN IF kind = "raise"
                  THEN /\ RaiseInWith("ConnectionError", "_get_feature_list")
                       /\ UNCHANGED <<batch_idx, feature_list, feature_idx>>
                  ELSE IF r.outcome = "KeyError"
                  THEN /\ RaiseInWith("KeyError", "_get_feature_list")
                       /\ UNCHANGED <<batch_idx, feature_list, feature_idx>>
                  ELSE /\ feature_list' = r.value
                       /\ feature_idx' = 1
                       /\ IF r.value = <<>>
                          THEN pc' = "next_batch" /\ batch_idx' = batch_idx + 1
                          ELSE pc' = "insert_rows" /\ batch_idx' = batch_idx
                       /\ UNCHANGED <<error, raised_at, cursor, closes>>
    /\ UNCHANGED <<properties, server_ids, columns, field_idx, insert_field_list,
                   batch_size, fid_list, fid_batch_list, opens, rows, vf, gj>>

(* The step to the next feature, or to the next batch after the last one.  *)
NextFeature ==
    IF feature_idx = Len(feature_list)
    THEN pc' = "next_batch" /\ batch_idx' = batch_idx + 1 /\ UNCHANGED feature_idx
    ELSE feature_idx' = feature_idx + 1 /\ UNCHANGED <<pc, batch_idx>>

(* An inner loop that skips a feature whose attribute is missing.          *)
InsertRowSkipping ==
    /\ pc = "insert_rows"
    /\ LET r == AttributeList(feature_list[feature_idx], insert_field_list)
       IN IF r.outcome = "KeyError"
          THEN /\ NextFeature
               /\ UNCHANGED <<error, raised_at, cursor, closes, rows>>
          ELSE \E ok \in BOOLEAN :
                IF ok
                THEN /\ rows' = Append(rows, r.value)
                     /\ NextFeature
                     /\ UNCHANGED <<error, raised_at, cursor, closes>>
                ELSE /\ RaiseInWith("RuntimeError", "insertRow")
                     /\ UNCHANGED <<batch_idx, feature_idx, rows>>
    /\ UNCHANGED <<properties, server_ids, columns, field_idx, insert_field_list,
                   batch_size, fid_list, fid_batch_list, opens, feature_list,
                   queries, vf, gj>>

(* One pass of "for feature in feature_list": the attribute list is built  *)
(* (a missing key raises KeyError) and insertRow writes it; insertRow may  *)
(* fail.                                                                   *)
InsertRow ==
    /\ pc = "insert_rows"
    /\ LET r == AttributeList(feature_list[feature_idx], insert_field_list)
       IN IF r.outcome = "KeyError"
          THEN /\ RaiseInWith("KeyError", "attribute_list")
               /\ UNCHANGED <<batch_idx, feature_idx, rows>>
          ELSE \E ok \in BOOLEAN :
                IF ok
                THEN /\ rows' = Append(rows, r.value)
                     /\ NextFeature
                     /\ UNCHANGED <<error, raised_at, cursor, closes>>
                ELSE /\ RaiseInWith("RuntimeError", "insertRow")
                     /\ UNCHANGED <<batch_idx, feature_idx, rows>>
    /\ UNCHANGED <<properties, server_ids, columns, field_idx, insert_field_list,
                   batch_size, fid_list, fid_batch_list, opens, feature_list,
                   queries, vf, gj>>

(* The end of the outer loop: the with block is left and fc is returned.   *)
ExitWith ==
    /\ pc = "next_batch"
    /\ batch_idx > Len(fid_batch_list)
    /\ cursor' = "closed"
    /\ closes' = closes + 1
    /\ pc' = "done"
    /\ UNCHANGED <<error, raised_at, properties, server_ids, columns, field_idx,
                   insert_field_list, batch_size, fid_list, fid_batch_list, opens,
                   batch_idx, feature_list, feature_idx, rows, queries, vf, gj>>

Next ==
    \/ CreateFeatureclass
    \/ AddField
    \/ ComputeBatchSize
    \/ GetFidList
    \/ MakeBatches
    \/ OpenCursor
    \/ FetchBatch
    \/ InsertRow
    \/ ExitWith

Spec == Init /\ [][Next]_vars

----------------------------------------------------------------------------
(* The batching alone, over every maxRecordCount from 0 to just past the   *)
(* cap                                                                     *)
(* and every identifier count up to two full batches and MaxSlack more:    *)
(* the export of a service without fields, up to fid_batch_list.           *)

BatchRecordCounts == 0..(BatchCap + 1)

BatchIdCounts == 0..(2 * BatchCap + MaxSlack)

InitBatch ==
    /\ InitExport
    /\ vf = NoCall
    /\ gj = NoGeo
    /\ properties \in [maxRecordCount : BatchRecordCounts, fields : {<<>>},
                       geometryType : {"esriGeometryPoint"}]
    /\ server_ids \in {[kind |-> "array", ids |-> IdArray(n)] : n \in BatchIdCounts}

NextBatch ==
    \/ CreateFeatureclass
    \/ ComputeBatchSize
    \/ GetFidList
    \/ MakeBatches

SpecBatch == InitBatch /\ [][NextBatch]_vars

----------------------------------------------------------------------------
(* _validate_field alone, over every field type and every name of          *)
(* FieldNames.                                                             *)

IdleService == [maxRecordCount |-> 1, fields |-> <<>>,
                geometryType |-> "esriGeometryPoint"]

InitValidate ==
    /\ InitExport
    /\ properties = IdleService
    /\ server_ids = [kind |-> "array", ids |-> <<>>]
    /\ gj = NoGeo
    /\ \E t \in FieldTypes, n \in FieldNames :
         vf = [field |-> [name |-> n, alias |-> n, type |-> t, length |-> <<>>],
               done |-> FALSE, result |-> FALSE]

(* self._validate_field(field)                                             *)
CallValidateField ==
    /\ ~vf.done
    /\ vf' = [vf EXCEPT !.done = TRUE, !.result = _validate_field(vf.field)]
    /\ UNCHANGED <<exportVars, gj>>

NextValidate == CallValidateField

SpecValidate == InitValidate /\ [][NextValidate]_vars

----------------------------------------------------------------------------
(* get_geometry_json alone, over every subset of the keys paths, rings, x  *)
(* and y, with coordinates from 1..MaxCoord.                               *)

GeometryKeys == {"paths", "rings", "x", "y"}

GeometryDicts ==
    UNION {{[k \in K |-> IF k \in {"paths", "rings"} THEN <<c[k]>> ELSE c[k]] :
               c \in [K -> 1..MaxCoord]} : K \in SUBSET GeometryKeys}

InitGeometry ==
    /\ InitExport
    /\ properties = IdleService
    /\ server_ids = [kind |-> "array", ids |-> <<>>]
    /\ vf = NoCall
    /\ \E d \in GeometryDicts :
         gj = [dict |-> d, done |-> FALSE, outcome |-> "none", value |-> <<>>]

(* get_geometry_json(feature['geometry'])                                  *)
CallGetGeometryJson ==
    /\ ~gj.done
    /\ LET r == get_geometry_json(gj.dict)
       IN gj' = [gj EXCEPT !.done = TRUE, !.outcome = r.outcome, !.value = r.value]
    /\ UNCHANGED <<exportVars, vf>>

NextGeometry == CallGetGeometryJson

SpecGeometry == InitGeometry /\ [][NextGeometry]_vars

----------------------------------------------------------------------------
(* Vocabulary of the properties.                                           *)

(* The steps of save_to_feature_class, in program order.                   *)
StepOrder == <<"create", "add_fields", "get_fid_list", "make_batches", "open_cursor",
               "next_batch", "insert_rows", "done">>

StepNo(step) == CHOOSE k \in 1..Len(StepOrder) : StepOrder[k] = step

RaiseOrder == <<"create", "add_fields", "get_fid_list", "make_batches",
                "_get_feature_list", "attribute_list", "insertRow">>

RaiseNo(at) == CHOOSE k \in 1..Len(RaiseOrder) : RaiseOrder[k] = at

(* The run has left the fields loop: batch_size holds the computed value.  *)
BatchSizeComputed ==
    IF pc = "raised" THEN RaiseNo(raised_at) >= 3 ELSE StepNo(pc) >= 3

(* The run has computed fid_batch_list.                                    *)
BatchesMade ==
    IF pc = "raised" THEN RaiseNo(raised_at) >= 5 ELSE StepNo(pc) >= 5

RECURSIVE Flatten(_)
Flatten(ss) == IF ss = <<>> THEN <<>> ELSE Head(ss) \o Flatten(Tail(ss))

Min(a, b) == IF a < b THEN a ELSE b

(* s begins with p, position by position.                                  *)
BeginsWith(s, p) ==
    /\ Len(p) <= Len(s)
    /\ \A i \in 1..Len(p) : s[i] = p[i]

IsShape(v) == DOMAIN v = {"type", "coordinates"}

(* The identifier of the feature a row was made from: its geometry's first *)
(* coordinate.                                                             *)
RowFid(row) == row[Len(row)].coordinates.value[1]

(* The rows made from the identifiers of ids.                              *)
RowsOf(ids) ==
    {r \in 1..Len(rows) : \E k \in 1..Len(ids) : RowFid(rows[r]) = ids[k]}

ValidFields == SelectSeq(properties.fields, _validate_field)

----------------------------------------------------------------------------
(* C1: for a batch size from 1 to 100, fid_batch_list consists of          *)
(* consecutive disjoint slices of fid_list, and concatenating the batches  *)
(* in order gives fid_list back: no identifier is dropped, duplicated or   *)
(* reordered.                                                              *)
C1_BatchesRoundTrip ==
    (BatchesMade /\ batch_size \in 1..BatchCap) =>
        /\ Flatten(fid_batch_list) = fid_list.val
        /\ \A k \in 1..Len(fid_batch_list) :
             fid_batch_list[k] =
                 SubSeq(fid_list.val, (k - 1) * batch_size + 1,
                        Min(k * batch_size, Len(fid_list.val)))

(* C2: a completed export of a service that lists N identifiers and        *)
(* answers every batch query with one feature per requested identifier has *)
(* inserted exactly N rows.                                                *)
C2_RowCountIsN ==
    (/\ pc = "done"
     /\ \A k \in 1..Len(queries) : queries[k].kind \notin {"short", "raise"})
        => Len(rows) = Len(server_ids.ids)

(* C3: _validate_field returns False exactly when the type is OID,         *)
(* Geometry, Date or GlobalID, or the name begins with OBJECTID or with    *)
(* "Shape."; it returns True in every other case.                          *)
C3_ValidateField ==
    vf.done =>
        (vf.result = FALSE <=>
            \/ vf.field.type \in {"esriFieldTypeOID", "esriFieldTypeGeometry",
                                  "esriFieldTypeDate", "esriFieldTypeGlobalID"}
            \/ BeginsWith(vf.field.name, S_OBJECTID)
            \/ BeginsWith(vf.field.name, S_ShapeDot))

(* A Date field with an ordinary name was rejected.                        *)
C3_Witness ==
    /\ vf.done
    /\ vf.field.type = "esriFieldTypeDate"
    /\ vf.field.name = S_NAME
    /\ vf.result = FALSE

(* C4: when the server reports no identifiers (objectIds empty, null or    *)
(* absent), get_fid_list returns an empty sequence without an error and    *)
(* the export completes with no batch fetched and no row inserted; stated  *)
(* for a maxRecordCount of at least 1.                                     *)
C4_NoIdentifiersNoError ==
    (/\ properties.maxRecordCount >= 1
     /\ server_ids.kind \in {"absent", "null"} \/ server_ids.ids = <<>>)
        => /\ ~(raised_at = "get_fid_list" /\ error = "KeyError")
           /\ (pc \in {"make_batches", "open_cursor", "next_batch", "done"}
                  => fid_list = Some(<<>>))
           /\ raised_at /= "make_batches"
           /\ (pc = "done" => queries = <<>> /\ rows = <<>>)

(* C5 as stated: for every maxRecordCount the batch size is                *)
(* min(maxRecordCount, 100) and at least 1, and every batch holds between  *)
(* 1 and batch_size identifiers.                                           *)
C5_AsStated ==
    /\ BatchSizeComputed =>
          /\ batch_size = Min(properties.maxRecordCount, BatchCap)
          /\ batch_size >= 1
    /\ BatchesMade =>
          \A k \in 1..Len(fid_batch_list) :
              Len(fid_batch_list[k]) \in 1..batch_size

(* C5: for every maxRecordCount of at least 1 the batch size is            *)
(* min(maxRecordCount, 100) and at least 1, and every batch holds between  *)
(* 1 and batch_size identifiers.                                           *)
C5_BatchSize ==
    properties.maxRecordCount >= 1 => C5_AsStated

(* Three batches were made at the cap from a maxRecordCount above it.      *)
C5_Witness ==
    /\ BatchesMade
    /\ properties.maxRecordCount > BatchCap
    /\ Len(fid_batch_list) = 3
    /\ Len(fid_batch_list[1]) = BatchCap
    /\ Len(fid_batch_list[3]) < BatchCap

(* C6: the insert cursor is opened once, before the first batch is         *)
(* fetched, and closed once on every exit path of the with block (after    *)
(* the last batch, or when a batch fetch, an attribute lookup or insertRow *)
(* raises); no row is inserted and no batch is fetched while the cursor is *)
(* not open.                                                               *)
C6_CursorOpenedAndClosedOnce ==
    /\ [](/\ opens <= 1
          /\ closes <= opens
          /\ (cursor = "none") = (opens = 0)
          /\ (cursor = "closed") = (closes = 1)
          /\ (queries /= <<>> \/ rows /= <<>>) => opens = 1
          /\ (pc \in {"done", "raised"} /\ opens = 1) => closes = 1)
    /\ [][cursor /= "open" => (rows' = rows /\ queries' = queries)]_vars

(* insertRow raised after a row was written, and the cursor was closed.    *)
C6_Witness ==
    /\ pc = "raised"
    /\ raised_at = "insertRow"
    /\ rows /= <<>>
    /\ cursor = "closed"
    /\ closes = 1

(* C7: the column list of the insert cursor is the names of the fields     *)
(* that _validate_field accepts, in the order of the metadata, followed by *)
(* the geometry column; every inserted row has one value per column, the   *)
(* i-th being the feature's attribute for the i-th valid field and the     *)
(* last the geometry.                                                      *)
C7_ColumnAndRowOrder ==
    LET expected == [i \in 1..Len(ValidFields) |-> ValidFields[i].name]
                    \o <<S_SHAPE_AT>>
    IN /\ cursor /= "none" => insert_field_list = expected
       /\ \A r \in 1..Len(rows) :
            /\ Len(rows[r]) = Len(expected)
            /\ IsShape(rows[r][Len(rows[r])])
            /\ rows[r][Len(rows[r])].type = geometry_type[properties.geometryType]
            /\ \A i \in 1..Len(ValidFields) :
                 rows[r][i] = AttrValue(RowFid(rows[r]), ValidFields[i].name)

(* A row of two attributes and the geometry was inserted.                  *)
C7_Witness ==
    /\ Len(ValidFields) = 2
    /\ Len(rows) >= 1
    /\ Len(rows[1]) = 3

(* C8: get_geometry_json returns the paths value if paths is present, else *)
(* the rings value if rings is present, else [x, y] if both x and y are    *)
(* present, and None without an error in every other case.                 *)
C8_GeometryPrecedence ==
    gj.done =>
        IF "paths" \in DOMAIN gj.dict
        THEN gj.outcome = "return" /\ gj.value = gj.dict["paths"]
        ELSE IF "rings" \in DOMAIN gj.dict
        THEN gj.outcome = "return" /\ gj.value = gj.dict["rings"]
        ELSE IF {"x", "y"} \subseteq DOMAIN gj.dict
        THEN gj.outcome = "return" /\ gj.value = <<gj.dict["x"], gj.dict["y"]>>
        ELSE gj.outcome = "None"

(* C9: an error in the copy phase ends the export.  After a failed batch   *)
(* query no further batch is fetched and no row of that batch is written;  *)
(* after a feature without an expected attribute neither that feature nor  *)
(* a later one is written; no batch is requested twice; and the rows       *)
(* written before the failure stay in the dataset.                         *)
C9_ErrorAborts ==
    /\ [](/\ \A k \in 1..Len(queries) :
               /\ queries[k].kind \in {"raise", "ygeom"} =>
                     /\ k = Len(queries)
                     /\ pc = "raised"
                     /\ RowsOf(queries[k].ids) = {}
               /\ (queries[k].kind = "noattr" /\ ValidFields /= <<>>) =>
                     /\ k = Len(queries)
                     /\ RowsOf(SubSeq(queries[k].ids, queries[k].pos,
                                      Len(queries[k].ids))) = {}
          /\ \A i, j \in 1..Len(queries) :
               i /= j => queries[i].ids /= queries[j].ids)
    /\ [][pc = "raised" => (rows' = rows /\ queries' = queries)]_vars
    /\ [][Len(rows') >= Len(rows) /\ SubSeq(rows', 1, Len(rows)) = rows]_vars

(* A feature without its attributes ended the export after a row was       *)
(* written and with a batch still to fetch.                                *)
C9_Witness ==
    /\ pc = "raised"
    /\ raised_at = "attribute_list"
    /\ error = "KeyError"
    /\ rows /= <<>>
    /\ batch_idx < Len(fid_batch_list)

(* C10: the schema step adds one column per field that _validate_field     *)
(* accepts, whatever its type, none for a rejected field, and always       *)
(* reaches the identifier listing.                                         *)
C10_SchemaStep ==
    /\ raised_at /= "add_fields"
    /\ BatchSizeComputed =>
          /\ Len(columns) = Len(ValidFields)
          /\ \A i \in 1..Len(columns) :
               /\ columns[i].field_name = ValidFields[i].name
               /\ columns[i].field_alias = ValidFields[i].alias
               /\ (columns[i].field_length /= <<>>) = (columns[i].field_type = "TEXT")

====
